---- MODULE Spec2Model ----
(***************************************************************************)
(* Urban infrastructure failure simulator.                                 *)
(*                                                                         *)
(* Part I  : the socket.io progress service (run-state registry, rooms,    *)
(*           the start-simulation progress loop, cancel, subscribe and     *)
(*           the exported updateSimulationState helper).                   *)
(* Part II : the degradation engine (runSimulation and the pure functions  *)
(*           it is built from), in fixed-point arithmetic.                 *)
(* Part III: the HTTP routes that run a simulation, read, update and       *)
(*           delete an asset, with the database tables and the cache.      *)
(***************************************************************************)
EXTENDS Integers, Sequences, FiniteSets, TLC

VARIABLES
    simulationStates,   \* Map<simulationId, {status, progress, results, error?}>
    simRooms,           \* members of room `simulation:<id>` : set of <<socket, id>>
    tenantRooms,        \* members of room `tenant:<id>`     : set of <<socket, tenant>>
    loops,              \* the start-simulation invocations in flight (async handlers)
    emitted,            \* deliveries made by the last handler step
    cancelSeen,         \* history: ids for which a cancel took effect
    runTenant,          \* history: tenantId of the latest start-simulation of an id
    terminalLog,        \* history: the first terminal events emitted per id, in order
    unsubscribed,       \* history: memberships ended by unsubscribe-simulation, not regained
                        \*          (kept by SpecSubscribe only)
    lastMonth,          \* history: month of the latest simulation-progress issued per id
                        \*          since its latest start (kept by SpecSteps only)
    clock,              \* wall clock, in days (Date.now())
    asset,              \* the asset row of the database
    inv,                \* invocations of runSimulation
    call,               \* the latest direct call of a pure function of the engine
    db,                 \* the tables simulationRun, simulationResult, riskAssessment
    cache,              \* MemoryCache: the set of entries [key, value]
    post,               \* POST run-simulation requests in flight
    del,                \* the DELETE asset request
    put,                \* the PUT asset request
    get                 \* the GET request (asset, asset list or dashboard KPIs)

progressVars == <<simulationStates, simRooms, tenantRooms, loops, emitted,
                  cancelSeen, runTenant, terminalLog>>
serviceVars == <<progressVars, unsubscribed, lastMonth>>
engineVars == <<clock, asset, inv, call>>
apiVars == <<db, cache, post, del, put, get>>
vars == <<simulationStates, simRooms, tenantRooms, loops, emitted,
          cancelSeen, runTenant, terminalLog, unsubscribed, lastMonth, clock, asset, inv, call,
          db, cache, post, del, put, get>>

-----------------------------------------------------------------------------
(* Bounds *)

MaxQuarters == 1

Sockets == {"s1", "s2"}
Runs == {"r1"}
Tenants == {"t1"}
LoopIds == {"a", "b"}   \* start-simulation invocations that can be in flight together
\* data.config.yearsToSimulate is an unvalidated JSON number; the model draws it
\* from the multiples of a quarter year, given as a number of quarters
QuarterChoices == 0..MaxQuarters

-----------------------------------------------------------------------------
(* Part I : progress service *)

NoError == "undefined"
NoTenant == "none"
NoState == [status |-> "absent", progress |-> 0, results |-> <<>>, error |-> NoError]
Terminal == {"completed", "cancelled", "failed"}

Has(id) == simulationStates[id].status # "absent"

IdleLoop == [pc |-> "idle", id |-> "none", tenant |-> NoTenant, month |-> 0, totalMonths |-> 0]

\* Math.round(x / y * 100) for integers x >= 0, y > 0 (round half up)
RoundPercent(x, y) == (200 * x + y) \div (2 * y)

\* an emit that goes to the members of every run room (io.emit)
ToSimRoomBroadcast(id, ev, month, st) ==
    { [to |-> m[1], event |-> ev, id |-> id, month |-> month,
       status |-> st.status, progress |-> st.progress, error |-> st.error]
      : m \in simRooms }

\* io.to(`simulation:${id}`).emit(event, payload)
ToSimRoom(id, ev, month, st) ==
    { [to |-> m[1], event |-> ev, id |-> id, month |-> month,
       status |-> st.status, progress |-> st.progress, error |-> st.error]
      : m \in { x \in simRooms : x[2] = id } }

\* io.to(`tenant:${tenantId}`).emit('simulation-notification', ...)
ToTenantRoom(tenant, id) ==
    { [to |-> m[1], event |-> "simulation-notification", id |-> id, month |-> 0,
       status |-> "completed", progress |-> 0, error |-> NoError]
      : m \in { x \in tenantRooms : x[2] = tenant } }

\* socket.emit('simulation-state', { simulationId, ...state })
ToSocket(s, id, st) ==
    { [to |-> s, event |-> "simulation-state", id |-> id, month |-> 0,
       status |-> st.status, progress |-> st.progress, error |-> st.error] }

IdleInvocation == [pc |-> "idle", config |-> <<>>, results |-> <<>>]
NoCall == [fn |-> "none", conditionScore |-> 0, degradationRate |-> 0,
           monthsSinceLastMaintenance |-> 0, failureProbability |-> 0,
           out |-> 0, level |-> "none",
           maintenanceFreq |-> 0, results |-> <<>>, now |-> 0, window |-> <<>>, cost |-> <<>>]
InvIds == {"i1", "i2"}   \* invocations of runSimulation

\* POST run-simulation requests; each creates at most one simulationRun record
Reqs == {"q1"}
NoAsset == <<>>
NoRun == [status |-> "absent", errorMessage |-> NoError]
IdlePost == [pc |-> "idle", config |-> <<>>, asset |-> NoAsset, results |-> <<>>,
             error |-> NoError, response |-> 0, created |-> FALSE]
IdleRequest == [pc |-> "idle", response |-> 0]
IdlePut == [pc |-> "idle", body |-> <<>>, response |-> 0]
IdleGet == [pc |-> "idle", kind |-> "none", value |-> <<>>, response |-> 0]

\* the routes at rest: empty tables, empty cache, no request in flight
InitApi ==
    /\ db = [simulationRun |-> [q \in Reqs |-> NoRun],
             simulationResult |-> [q \in Reqs |-> <<>>],
             riskAssessment |-> {}]
    /\ cache = {}
    /\ post = [q \in Reqs |-> IdlePost]
    /\ del = IdleRequest
    /\ put = IdlePut
    /\ get = IdleGet

InitService ==
    /\ simulationStates = [r \in Runs |-> NoState]
    /\ simRooms = {}
    /\ tenantRooms = {}
    /\ loops = [l \in LoopIds |-> IdleLoop]
    /\ emitted = {}
    /\ cancelSeen = {}
    /\ runTenant = [r \in Runs |-> NoTenant]
    /\ terminalLog = [r \in Runs |-> <<>>]
    /\ unsubscribed = {}
    /\ lastMonth = [r \in Runs |-> 0]

\* the progress service alone; the engine is not invoked
InitProgress ==
    /\ InitService
    /\ clock = 0
    /\ asset = <<>>
    /\ inv = [i \in InvIds |-> IdleInvocation]
    /\ call = NoCall
    /\ InitApi

JoinTenant(s, t) ==
    /\ tenantRooms' = tenantRooms \cup {<<s, t>>}
    /\ emitted' = {}
    /\ UNCHANGED <<simulationStates, simRooms, loops, cancelSeen, runTenant, terminalLog>>
    /\ UNCHANGED engineVars
    /\ UNCHANGED apiVars

\* a subscribe handler that also replays the start of the run to the subscriber
SubscribeSimulationReplay(s, id) ==
    /\ simRooms' = simRooms \cup {<<s, id>>}
    /\ emitted' = IF Has(id)
                  THEN ToSocket(s, id, simulationStates[id])
                       \cup { [to |-> s, event |-> "simulation-started", id |-> id, month |-> 0,
                               status |-> "running", progress |-> 0, error |-> NoError] }
                  ELSE {}
    /\ UNCHANGED <<simulationStates, tenantRooms, loops, cancelSeen, runTenant, terminalLog>>
    /\ UNCHANGED engineVars
    /\ UNCHANGED apiVars

SubscribeSimulation(s, id) ==
    /\ simRooms' = simRooms \cup {<<s, id>>}
    /\ emitted' = IF Has(id) THEN ToSocket(s, id, simulationStates[id]) ELSE {}
    /\ UNCHANGED <<simulationStates, tenantRooms, loops, cancelSeen, runTenant, terminalLog>>
    /\ UNCHANGED engineVars
    /\ UNCHANGED apiVars

\* an unsubscribe handler that empties the room of the run
UnsubscribeSimulationAll(s, id) ==
    /\ simRooms' = { m \in simRooms : m[2] # id }
    /\ emitted' = {}
    /\ UNCHANGED <<simulationStates, tenantRooms, loops, cancelSeen, runTenant, terminalLog>>
    /\ UNCHANGED engineVars
    /\ UNCHANGED apiVars

UnsubscribeSimulation(s, id) ==
    /\ simRooms' = simRooms \ {<<s, id>>}
    /\ emitted' = {}
    /\ UNCHANGED <<simulationStates, tenantRooms, loops, cancelSeen, runTenant, terminalLog>>
    /\ UNCHANGED engineVars
    /\ UNCHANGED apiVars

\* history only: remember a terminal event (the first two of an id)
Logged(id, ev) ==
    IF Len(terminalLog[id]) < 2
    THEN [terminalLog EXCEPT ![id] = Append(@, ev)]
    ELSE terminalLog

\* The block after the for loop: mark as completed when still running.
\* `st` is the registry entry as the loop left it; result is <<entry, events>>.
CompletionBlock(id, tenant, st) ==
    IF st.status = "running"
    THEN LET fin == [st EXCEPT !.status = "completed", !.progress = 100]
         IN  <<fin, ToSimRoom(id, "simulation-completed", 0, fin) \cup ToTenantRoom(tenant, id)>>
    ELSE <<st, {}>>

\* start-simulation up to its first await (or to its end when the loop is empty)
StartSimulation(l, id, tenant, quarters) ==
    /\ loops[l].pc = "idle"
    /\ LET fresh == [status |-> "running", progress |-> 0, results |-> <<>>, error |-> NoError]
           started == ToSimRoom(id, "simulation-started", 0, fresh)
           totalMonths == (quarters * 12) \div 4   \* yearsToSimulate * 12
       IN  IF 1 <= totalMonths
           THEN /\ simulationStates' = [simulationStates EXCEPT ![id] = fresh]
                /\ emitted' = started
                /\ loops' = [loops EXCEPT ![l] = [pc |-> "sleeping", id |-> id, tenant |-> tenant,
                                                  month |-> 1, totalMonths |-> totalMonths]]
                /\ terminalLog' = terminalLog
           ELSE LET cb == CompletionBlock(id, tenant, fresh)
                IN  /\ simulationStates' = [simulationStates EXCEPT ![id] = cb[1]]
                    /\ emitted' = started \cup cb[2]
                    /\ loops' = loops   \* the handler has returned
                    /\ terminalLog' = Logged(id, "simulation-completed")
    /\ cancelSeen' = cancelSeen
    /\ runTenant' = [runTenant EXCEPT ![id] = tenant]
    /\ UNCHANGED <<simRooms, tenantRooms>>
    /\ UNCHANGED engineVars
    /\ UNCHANGED apiVars

\* a loop whose handler returns after its last month without the completion block
LoopStepNoCompletion(l) ==
    /\ loops[l].pc = "sleeping"
    /\ LET lp == loops[l]
           id == lp.id
           progress == RoundPercent(lp.month, lp.totalMonths)
           state == simulationStates[id]
       IN  IF Has(id) /\ state.status = "running"
           THEN LET upd == [state EXCEPT !.progress = progress]
                IN  /\ simulationStates' = [simulationStates EXCEPT ![id] = upd]
                    /\ emitted' = ToSimRoom(id, "simulation-progress", lp.month, upd)
                    /\ loops' = IF lp.month + 1 <= lp.totalMonths
                                THEN [loops EXCEPT ![l].month = lp.month + 1]
                                ELSE [loops EXCEPT ![l] = IdleLoop]
           ELSE /\ simulationStates' = simulationStates
                /\ emitted' = {}
                /\ loops' = [loops EXCEPT ![l] = IdleLoop]
    /\ UNCHANGED <<simRooms, tenantRooms, cancelSeen, runTenant, terminalLog>>
    /\ UNCHANGED engineVars
    /\ UNCHANGED apiVars

\* one iteration of the for loop, from the timer's resolution to the next await
\* (or through the completion block when the loop ends here)
LoopStep(l) ==
    /\ loops[l].pc = "sleeping"
    /\ LET lp == loops[l]
           id == lp.id
           progress == RoundPercent(lp.month, lp.totalMonths)
           state == simulationStates[id]
       IN  IF Has(id) /\ state.status = "running"
           THEN LET upd == [state EXCEPT !.progress = progress]
                    ev == ToSimRoom(id, "simulation-progress", lp.month, upd)
                IN  IF lp.month + 1 <= lp.totalMonths
                    THEN /\ simulationStates' = [simulationStates EXCEPT ![id] = upd]
                         /\ emitted' = ev
                         /\ loops' = [loops EXCEPT ![l].month = lp.month + 1]
                         /\ terminalLog' = terminalLog
                    ELSE LET cb == CompletionBlock(id, lp.tenant, upd)
                         IN  /\ simulationStates' = [simulationStates EXCEPT ![id] = cb[1]]
                             /\ emitted' = ev \cup cb[2]
                             /\ loops' = [loops EXCEPT ![l] = IdleLoop]
                             /\ terminalLog' = Logged(id, "simulation-completed")
           ELSE \* break; the completion block finds the entry not running
                /\ simulationStates' = simulationStates
                /\ emitted' = {}
                /\ loops' = [loops EXCEPT ![l] = IdleLoop]
                /\ terminalLog' = terminalLog
    /\ UNCHANGED <<simRooms, tenantRooms, cancelSeen, runTenant>>
    /\ UNCHANGED engineVars
    /\ UNCHANGED apiVars

\* a cancel handler that only notes the request and leaves the status alone
CancelSimulationFlagOnly(s, id) ==
    /\ IF Has(id) /\ simulationStates[id].status = "running"
       THEN /\ simulationStates' = simulationStates
            /\ emitted' = ToSimRoom(id, "simulation-cancelled", 0, simulationStates[id])
            /\ cancelSeen' = cancelSeen \cup {id}
            /\ terminalLog' = Logged(id, "simulation-cancelled")
       ELSE /\ simulationStates' = simulationStates
            /\ emitted' = {}
            /\ cancelSeen' = cancelSeen
            /\ terminalLog' = terminalLog
    /\ UNCHANGED <<simRooms, tenantRooms, loops, runTenant>>
    /\ UNCHANGED engineVars
    /\ UNCHANGED apiVars

CancelSimulation(s, id) ==
    /\ IF Has(id) /\ simulationStates[id].status = "running"
       THEN LET st == [simulationStates[id] EXCEPT !.status = "cancelled",
                                                   !.error = "Simulation cancelled by user"]
            IN  /\ simulationStates' = [simulationStates EXCEPT ![id] = st]
                /\ emitted' = ToSimRoom(id, "simulation-cancelled", 0, st)
                /\ cancelSeen' = cancelSeen \cup {id}
                /\ terminalLog' = Logged(id, "simulation-cancelled")
       ELSE /\ simulationStates' = simulationStates
            /\ emitted' = {}
            /\ cancelSeen' = cancelSeen
            /\ terminalLog' = terminalLog
    /\ UNCHANGED <<simRooms, tenantRooms, loops, runTenant>>
    /\ UNCHANGED engineVars
    /\ UNCHANGED apiVars

\* Partial<{status, progress, results, error}> : "keep" (-1, <<>>) stands for an absent key
NoUpdate == [status |-> "keep", progress |-> -1, error |-> "keep", results |-> <<>>]
Updates ==
    { [NoUpdate EXCEPT !.status = "failed", !.error = "boom"],
      [NoUpdate EXCEPT !.status = "running"],
      [NoUpdate EXCEPT !.progress = 50] }

\* Object.assign(state, update)
Assign(st, u) ==
    [status |-> IF u.status = "keep" THEN st.status ELSE u.status,
     progress |-> IF u.progress = -1 THEN st.progress ELSE u.progress,
     results |-> IF u.results = <<>> THEN st.results ELSE u.results,
     error |-> IF u.error = "keep" THEN st.error ELSE u.error]

UpdateSimulationState(id, u) ==
    /\ IF Has(id)
       THEN LET st == Assign(simulationStates[id], u)
            IN  /\ simulationStates' = [simulationStates EXCEPT ![id] = st]
                /\ emitted' = ToSimRoom(id, "simulation-state", 0, st)
       ELSE /\ simulationStates' = simulationStates
            /\ emitted' = {}
    /\ UNCHANGED <<simRooms, tenantRooms, loops, cancelSeen, runTenant, terminalLog>>
    /\ UNCHANGED engineVars
    /\ UNCHANGED apiVars

\* the handlers themselves keep no record of past memberships
NextProgress ==
    \/ \E s \in Sockets, t \in Tenants : JoinTenant(s, t) /\ UNCHANGED <<unsubscribed, lastMonth>>
    \/ \E s \in Sockets, id \in Runs : SubscribeSimulation(s, id) /\ UNCHANGED <<unsubscribed, lastMonth>>
    \/ \E s \in Sockets, id \in Runs : UnsubscribeSimulation(s, id) /\ UNCHANGED <<unsubscribed, lastMonth>>
    \/ \E l \in LoopIds, id \in Runs, t \in Tenants, q \in QuarterChoices :
          StartSimulation(l, id, t, q) /\ UNCHANGED <<unsubscribed, lastMonth>>
    \/ \E l \in LoopIds : LoopStep(l) /\ UNCHANGED <<unsubscribed, lastMonth>>
    \/ \E s \in Sockets, id \in Runs : CancelSimulation(s, id) /\ UNCHANGED <<unsubscribed, lastMonth>>
    \/ \E id \in Runs, u \in Updates : UpdateSimulationState(id, u) /\ UNCHANGED <<unsubscribed, lastMonth>>

SpecProgress == InitProgress /\ [][NextProgress]_vars

-----------------------------------------------------------------------------
(* Properties of the progress service *)

Status(id) == simulationStates[id].status

ProgressEvents(out, id) == { d \in out : d.event = "simulation-progress" /\ d.id = id }

\* C1: once the status of a run is terminal (completed, cancelled, failed),
\* no later operation on that id changes its status, progress, results or error.
TerminalIsFinal ==
    [][\A id \in Runs :
          Status(id) \in Terminal => simulationStates'[id] = simulationStates[id]]_vars

\* C2: after a cancel request that found the run running, the run stays
\* cancelled, every loop of the run stops at its next step and no
\* simulation-progress event of the run is emitted any more.
CancelStopsRun ==
    [][\A id \in cancelSeen :
          /\ Status(id)' = "cancelled"
          /\ ProgressEvents(emitted', id) = {}
          /\ \A l \in LoopIds :
                (loops[l].id = id /\ loops'[l] # loops[l]) => loops'[l] = IdleLoop]_vars

\* C3: at most one terminal event is ever emitted for a run: never both
\* simulation-completed and simulation-cancelled, and never one of them twice.
OneTerminalEvent == \A id \in Runs : Len(terminalLog[id]) <= 1

ProgressMonotone ==
    [][\A id \in Runs :
          (Status(id) = "running" /\ Status(id)' = "running") =>
              /\ simulationStates'[id].progress \in 0..100
              /\ simulationStates'[id].progress >= simulationStates[id].progress]_vars

\* C6: subscribing to a run whose status is completed delivers to the subscriber
\* exactly one simulation-state snapshot, with status completed and progress 100.
LateSubscribeSnapshot ==
    [][\A s \in Sockets, id \in Runs :
          (SubscribeSimulation(s, id) /\ Status(id) = "completed") =>
              emitted' = { [to |-> s, event |-> "simulation-state", id |-> id, month |-> 0,
                            status |-> "completed", progress |-> 100,
                            error |-> simulationStates[id].error] }]_vars

\* C7: whenever a run reaches a terminal status, every socket in the room of the
\* run's tenant is sent a simulation-notification for that run.
TerminalNotifiesTenant ==
    [][\A id \in Runs :
          (Status(id) \notin Terminal /\ Status(id)' \in Terminal) =>
              \A m \in tenantRooms :
                  m[2] = runTenant[id] =>
                      \E d \in emitted' : d.to = m[1] /\ d.event = "simulation-notification"
                                            /\ d.id = id]_vars

\* C29: at most one loop drives a run id at any time, and a start-simulation
\* for an id that is running leaves the entry of the run as it is (its
\* progress is not put back to 0) and starts no second loop.
SingleDriver ==
    [][/\ \A l1, l2 \in LoopIds :
             (loops'[l1].pc = "sleeping" /\ loops'[l2].pc = "sleeping"
                 /\ loops'[l1].id = loops'[l2].id) => l1 = l2
       /\ \A id \in Runs :
             (Status(id) = "running" /\ \E l \in LoopIds : loops[l].pc = "sleeping" /\ loops[l].id = id) =>
                 \A l \in LoopIds :
                     (loops[l].pc = "idle" /\ loops'[l].pc = "sleeping") => loops'[l].id # id]_vars

-----------------------------------------------------------------------------
(* Subscriptions, with the history of the memberships that were ended *)

\* the handlers of the run rooms; `unsubscribed` remembers who left which room
NextSubscribe ==
    \/ \E s \in Sockets, id \in Runs :
          /\ SubscribeSimulation(s, id)
          /\ unsubscribed' = unsubscribed \ {<<s, id>>}
          /\ UNCHANGED lastMonth
    \/ \E s \in Sockets, id \in Runs :
          /\ UnsubscribeSimulation(s, id)
          /\ unsubscribed' = IF <<s, id>> \in simRooms THEN unsubscribed \cup {<<s, id>>}
                             ELSE unsubscribed
          /\ UNCHANGED lastMonth
    \/ \E l \in LoopIds, id \in Runs, t \in Tenants, q \in QuarterChoices :
          StartSimulation(l, id, t, q) /\ UNCHANGED <<unsubscribed, lastMonth>>
    \/ \E l \in LoopIds : LoopStep(l) /\ UNCHANGED <<unsubscribed, lastMonth>>
    \/ \E s \in Sockets, id \in Runs : CancelSimulation(s, id) /\ UNCHANGED <<unsubscribed, lastMonth>>
    \/ \E id \in Runs, u \in Updates : UpdateSimulationState(id, u) /\ UNCHANGED <<unsubscribed, lastMonth>>

SpecSubscribe == InitProgress /\ [][NextSubscribe]_vars

\* deliveries made through the room of a run (not the tenant notification)
RunDeliveries(out) == { d \in out : d.event # "simulation-notification" }

\* C17: an event of a run is delivered only to the sockets that are in the
\* room of the run when it is emitted, and once to each; a subscribe delivers
\* to the subscriber one snapshot of the current state when there is one, and
\* nothing else to anyone: no earlier event is replayed.
LiveDeliveryOnly ==
    [][/\ \A d \in RunDeliveries(emitted') : <<d.to, d.id>> \in simRooms'
       /\ \A d1, d2 \in emitted' :
             (d1.to = d2.to /\ d1.id = d2.id /\ d1.event = d2.event) => d1 = d2
       /\ \A s \in Sockets, id \in Runs :
             SubscribeSimulation(s, id) =>
                 /\ \A d \in emitted' :
                       /\ d.to = s /\ d.id = id /\ d.event = "simulation-state"
                       /\ d.status = Status(id) /\ d.progress = simulationStates[id].progress
                 /\ Cardinality(emitted') = IF Has(id) THEN 1 ELSE 0]_vars

\* s2 subscribed to a run in progress that s1 was already following, and was
\* sent the snapshot alone
LateSubscriberSnapshot ==
    \E id \in Runs, d \in emitted :
        /\ emitted = {d}
        /\ d.to = "s2" /\ d.id = id /\ d.event = "simulation-state"
        /\ d.status = "running" /\ d.progress > 0
        /\ {<<"s1", id>>, <<"s2", id>>} \subseteq simRooms

\* C18: unsubscribe-simulation removes the socket from the room of that run
\* and does nothing else (nothing at all when the socket is not in the room);
\* a socket that has left receives no event of the run until it subscribes again.
UnsubscribeIsRemoval ==
    [][/\ \A s \in Sockets, id \in Runs :
             UnsubscribeSimulation(s, id) =>
                 /\ simRooms' = simRooms \ {<<s, id>>}
                 /\ <<s, id>> \notin simRooms => simRooms' = simRooms
                 /\ emitted' = {}
                 /\ UNCHANGED <<simulationStates, tenantRooms, loops>>
       /\ \A m \in unsubscribed' :
             /\ m \notin simRooms'
             /\ \A d \in RunDeliveries(emitted') : d.id = m[2] => d.to # m[1]
       /\ \A m \in unsubscribed \ unsubscribed' : SubscribeSimulation(m[1], m[2])]_vars

\* a progress event of a run went to the room after a socket had left it
UnsubscribedMissesEvent ==
    \E m \in unsubscribed, d \in emitted :
        d.id = m[2] /\ d.event = "simulation-progress" /\ d.to # m[1]

-----------------------------------------------------------------------------
(* Deliveries that fail: an emit that throws inside start-simulation *)

\* one iteration of the loop in which the emit of simulation-progress throws:
\* the progress is already written, the exception leaves the async handler
\* (nothing catches it) and the invocation is over
LoopStepEmitThrows(l) ==
    /\ loops[l].pc = "sleeping"
    /\ LET lp == loops[l]
           id == lp.id
           progress == RoundPercent(lp.month, lp.totalMonths)
       IN  /\ Has(id) /\ simulationStates[id].status = "running"
           /\ simulationStates' = [simulationStates EXCEPT ![id].progress = progress]
    /\ emitted' = {}
    /\ loops' = [loops EXCEPT ![l] = IdleLoop]
    /\ UNCHANGED <<simRooms, tenantRooms, cancelSeen, runTenant, terminalLog>>
    /\ UNCHANGED engineVars
    /\ UNCHANGED apiVars

NextBroadcast ==
    \/ \E s \in Sockets, id \in Runs : SubscribeSimulation(s, id) /\ UNCHANGED <<unsubscribed, lastMonth>>
    \/ \E l \in LoopIds, id \in Runs, t \in Tenants, q \in QuarterChoices :
          StartSimulation(l, id, t, q) /\ UNCHANGED <<unsubscribed, lastMonth>>
    \/ \E l \in LoopIds : LoopStep(l) /\ UNCHANGED <<unsubscribed, lastMonth>>
    \/ \E l \in LoopIds : LoopStepEmitThrows(l) /\ UNCHANGED <<unsubscribed, lastMonth>>
    \/ \E s \in Sockets, id \in Runs : CancelSimulation(s, id) /\ UNCHANGED <<unsubscribed, lastMonth>>

SpecBroadcast == InitProgress /\ [][NextBroadcast]_vars

\* C20: a loop that wakes up with its run running always goes on, whether or
\* not its event can be delivered: it moves to the next month, or it was at
\* the last month and the run is completed.
EmitFailureKeepsLoop ==
    [][\A l \in LoopIds :
          (loops[l].pc = "sleeping" /\ Status(loops[l].id) = "running"
              /\ loops'[l] # loops[l]) =>
              \/ /\ loops[l].month < loops[l].totalMonths
                 /\ loops'[l] = [loops[l] EXCEPT !.month = @ + 1]
              \/ /\ loops[l].month = loops[l].totalMonths
                 /\ loops'[l] = IdleLoop
                 /\ simulationStates'[loops[l].id].status = "completed"]_vars

-----------------------------------------------------------------------------
(* The steps of a run, with the history of the months announced *)

\* the loop issues the emit of simulation-progress in this step (whoever is in the room)
IssuesProgress(l) ==
    /\ loops[l].pc = "sleeping"
    /\ Has(loops[l].id)
    /\ Status(loops[l].id) = "running"

\* the handlers that start, drive and stop a run; `lastMonth` remembers the
\* month of the latest simulation-progress of an id, from 0 at each start
NextSteps ==
    \/ \E s \in Sockets, id \in Runs :
          SubscribeSimulation(s, id) /\ UNCHANGED <<unsubscribed, lastMonth>>
    \/ \E l \in LoopIds, id \in Runs, t \in Tenants, q \in QuarterChoices :
          /\ StartSimulation(l, id, t, q)
          /\ lastMonth' = [lastMonth EXCEPT ![id] = 0]
          /\ UNCHANGED unsubscribed
    \/ \E l \in LoopIds :
          /\ LoopStep(l)
          /\ lastMonth' = IF IssuesProgress(l)
                          THEN [lastMonth EXCEPT ![loops[l].id] = loops[l].month]
                          ELSE lastMonth
          /\ UNCHANGED unsubscribed
    \/ \E s \in Sockets, id \in Runs :
          CancelSimulation(s, id) /\ UNCHANGED <<unsubscribed, lastMonth>>

SpecSteps == InitProgress /\ [][NextSteps]_vars

\* C21: the simulation-progress events of a run id carry the months 1, 2, 3, ...
\* in this order, none repeated and none skipped, and the registry holds the
\* progress of a step when the step's event is issued, before the next step.
StepsInOrder ==
    [][\A l \in LoopIds :
          (IssuesProgress(l) /\ loops'[l] # loops[l]) =>
              /\ loops[l].month = lastMonth[loops[l].id] + 1
              /\ \A d \in ProgressEvents(emitted', loops[l].id) :
                    /\ d.month = loops[l].month
                    /\ d.progress = RoundPercent(loops[l].month, loops[l].totalMonths)
              /\ simulationStates'[loops[l].id].progress \in
                    {RoundPercent(loops[l].month, loops[l].totalMonths), 100}]_vars

-----------------------------------------------------------------------------
(* Termination: the timers of the loops always fire *)

\* setTimeout(resolve, 50) resolves and the loop of the invocation goes on
TimerFires(l) == LoopStep(l) /\ UNCHANGED <<unsubscribed, lastMonth>>

\* the events of the socket service; no code of the repository calls the
\* exported updateSimulationState
NextLive ==
    \/ \E s \in Sockets, id \in Runs :
          SubscribeSimulation(s, id) /\ UNCHANGED <<unsubscribed, lastMonth>>
    \/ \E l \in LoopIds, id \in Runs, t \in Tenants, q \in QuarterChoices :
          StartSimulation(l, id, t, q) /\ UNCHANGED <<unsubscribed, lastMonth>>
    \/ \E l \in LoopIds : TimerFires(l)
    \/ \E s \in Sockets, id \in Runs :
          CancelSimulation(s, id) /\ UNCHANGED <<unsubscribed, lastMonth>>

\* a timer that is pending is not pending for ever
SpecLive ==
    /\ InitProgress
    /\ [][NextLive]_vars
    /\ \A l \in LoopIds : WF_vars(TimerFires(l))

\* a start-simulation invocation of the id is in flight
Driven(id) == \E l \in LoopIds : loops[l].pc = "sleeping" /\ loops[l].id = id

\* the step is the end of a start-simulation invocation on the id, with the
\* run running: after its last month, or at once when it has no month
EndsRun(id) ==
    \/ \E l \in LoopIds :
          /\ IssuesProgress(l) /\ loops[l].id = id
          /\ loops[l].month = loops[l].totalMonths /\ loops'[l] = IdleLoop
    \/ \E l \in LoopIds, t \in Tenants : StartSimulation(l, id, t, 0)

-----------------------------------------------------------------------------
(* Several runs at once: two run ids in the registry *)

RunsCross == {"r1", "r2"}

InitCross ==
    /\ simulationStates = [r \in RunsCross |-> NoState]
    /\ simRooms = {}
    /\ tenantRooms = {}
    /\ loops = [l \in LoopIds |-> IdleLoop]
    /\ emitted = {}
    /\ cancelSeen = {}
    /\ runTenant = [r \in RunsCross |-> NoTenant]
    /\ terminalLog = [r \in RunsCross |-> <<>>]
    /\ unsubscribed = {}
    /\ lastMonth = [r \in RunsCross |-> 0]
    /\ clock = 0
    /\ asset = <<>>
    /\ inv = [i \in InvIds |-> IdleInvocation]
    /\ call = NoCall
    /\ InitApi

\* who follows which run: s1 follows r1, s2 follows r2
Following == {<<"s1", "r1">>, <<"s2", "r2">>}

\* which invocation starts which run: one invocation per run id, each over
\* the longest horizon
Invocations == {<<"a", "r1">>, <<"b", "r2">>}
\* the update that an API route sends for a run that failed
CrossUpdates == { u \in Updates : u.status = "failed" }

NextCross ==
    \/ \E m \in Following :
          SubscribeSimulation(m[1], m[2]) /\ UNCHANGED <<unsubscribed, lastMonth>>
    \/ \E m \in Invocations, t \in Tenants :
          StartSimulation(m[1], m[2], t, MaxQuarters) /\ UNCHANGED <<unsubscribed, lastMonth>>
    \/ \E l \in LoopIds : LoopStep(l) /\ UNCHANGED <<unsubscribed, lastMonth>>
    \/ \E m \in Following :
          CancelSimulation(m[1], m[2]) /\ UNCHANGED <<unsubscribed, lastMonth>>
    \/ \E id \in RunsCross, u \in CrossUpdates :
          UpdateSimulationState(id, u) /\ UNCHANGED <<unsubscribed, lastMonth>>

SpecCross == InitCross /\ [][NextCross]_vars

\* the step is an operation on the run id: a start, a step of a loop of the
\* id, a cancel or an updateSimulationState
OperatesOn(id) ==
    \/ \E l \in LoopIds, t \in Tenants, q \in QuarterChoices : StartSimulation(l, id, t, q)
    \/ \E l \in LoopIds : loops[l].id = id /\ LoopStep(l)
    \/ \E s \in Sockets : CancelSimulation(s, id)
    \/ \E u \in CrossUpdates : UpdateSimulationState(id, u)

\* C23: an operation on one run id leaves the registry entry of every other
\* id as it is (status, progress, results, error), and every event it sends
\* through a run room is an event of its own id, sent to sockets that
\* subscribed to that id.
CrossRunFrame ==
    [][\A id \in RunsCross :
          \/ /\ \A other \in RunsCross \ {id} :
                   simulationStates'[other] = simulationStates[other]
             /\ \A d \in RunDeliveries(emitted') :
                   d.id = id /\ <<d.to, id>> \in simRooms
          \/ ~OperatesOn(id)]_vars

\* two runs are running at different progress, each followed by its own
\* subscriber only, and a step of r1 has just been announced
TwoRunsInFlight ==
    /\ Status("r1") = "running" /\ Status("r2") = "running"
    /\ simulationStates["r1"].progress # simulationStates["r2"].progress
    /\ simRooms = {<<"s1", "r1">>, <<"s2", "r2">>}
    /\ \E d \in emitted : d.event = "simulation-progress" /\ d.id = "r1" /\ d.to = "s1"
    /\ \E l1, l2 \in LoopIds : loops[l1].id = "r1" /\ loops[l2].id = "r2"

-----------------------------------------------------------------------------
(* Part II : degradation engine, in fixed point                            *)
(*   condition points, factors and multipliers : units of 1/Scale          *)
(*   probabilities                              : units of 1/Scale         *)
(*   indices (0-1)                              : hundredths               *)
(*   money                                      : hundredths               *)

Scale == 100 * 100

Min(a, b) == IF a <= b THEN a ELSE b
Max(a, b) == IF a >= b THEN a ELSE b

\* (a * b) \div c for a, b >= 0 and c > 0, without forming the product a * b
MulDiv(a, b, c) == a * (b \div c) + (a * (b % c)) \div c

\* Math.round(x / unit), x given in units of 1/unit (round half up)
RoundDiv(x, unit) == (2 * x + unit) \div (2 * unit)

\* annual wear rates, in tenths of a point
MATERIAL_WEAR_RATES ==
    [asphalt |-> 25, concrete |-> 18, gravel |-> 40, brick |-> 20,
     steel |-> 15, reinforced_concrete |-> 16, prestressed_concrete |-> 14, timber |-> 35,
     pvc |-> 12, ductile_iron |-> 18, cast_iron |-> 22, hdpe |-> 10,
     concrete_pipe |-> 20, clay |-> 25, corrugated_metal |-> 28, plastic |-> 15,
     composite |-> 13, other |-> 20]

\* MATERIAL_WEAR_RATES[material] || 2.0, in tenths of a point
BaseAnnualRate(material) ==
    IF material \in DOMAIN MATERIAL_WEAR_RATES THEN MATERIAL_WEAR_RATES[material] ELSE 20

\* trafficLoad in units of 1/Scale; result in units of 1/Scale
calculateTrafficAmplification(trafficLoad) ==
    IF trafficLoad <= 30 * Scale
    THEN Scale + (trafficLoad * 3) \div 300
    ELSE IF trafficLoad <= 70 * Scale
         THEN 13000 + ((trafficLoad - 30 * Scale) * 7) \div 400
         ELSE 20000 + (trafficLoad - 70 * Scale) \div 30

\* indices in hundredths; result in units of 1/Scale
calculateEnvironmentalMultiplier(humidityIndex, salinityIndex, temperatureIndex) ==
    LET humidityFactor == 9000 + humidityIndex * 60
        salinityFactor == 10000 + salinityIndex * 80
        temperatureFactor == 9000 + temperatureIndex * 50
        multiplier == (((humidityFactor * salinityFactor) \div Scale) * temperatureFactor) \div Scale
    IN  Min(multiplier, 25000)

\* x / y for x > 0, in units of 1/Scale; a division by zero gives Infinity
Ratio(x, y) ==
    IF y = 0 THEN [inf |-> TRUE, val |-> 0]
    ELSE [inf |-> FALSE, val |-> IF y > 0 THEN (x * Scale) \div y ELSE ((-x) * Scale) \div (-y)]

\* months; result in units of 1/Scale
calculateMaintenanceFactor(maintenanceFreq, monthsSinceLastMaintenance) ==
    LET maintenanceRatio == Ratio(monthsSinceLastMaintenance, maintenanceFreq)
    IN  IF maintenanceRatio.inf THEN 13000 + 7000
        ELSE LET r == maintenanceRatio.val
             IN  IF r <= Scale THEN 7000 + ((Scale - r) * 2) \div 10
                 ELSE IF r <= 2 * Scale THEN 10000 + ((r - Scale) * 3) \div 10
                 ELSE 13000 + Min(((r - 2 * Scale) * 2) \div 10, 7000)

\* ageInDays = 365.25 * ageInYears; expectedLifespan in years; result in units of 1/Scale
calculateAgeFactor(ageInDays, expectedLifespan) ==
    LET ageRatio == Ratio(ageInDays * 4, expectedLifespan * 1461)
    IN  IF ageRatio.inf THEN 16000 + 4000
        ELSE LET r == ageRatio.val
             IN  IF r < 5000 THEN 10000
                 ELSE IF r < 7500 THEN 10000 + ((r - 5000) * 8) \div 10
                 ELSE IF r < Scale THEN 12000 + ((r - 7500) * 16) \div 10
                 ELSE 16000 + Min(((r - Scale) * 8) \div 10, 4000)

\* input: [material, ageInDays, expectedLifespan, trafficLoad, humidityIndex,
\*         salinityIndex, temperatureIndex, maintenanceFreq,
\*         monthsSinceLastMaintenance, currentCondition]
calculateMonthlyDegradation(input) ==
    LET baseMonthlyRate == (BaseAnnualRate(input.material) * Scale) \div 120
        trafficAmp == calculateTrafficAmplification(input.trafficLoad)
        environmentalMult == calculateEnvironmentalMultiplier(
                                input.humidityIndex, input.salinityIndex, input.temperatureIndex)
        maintenanceFactor == calculateMaintenanceFactor(
                                input.maintenanceFreq, input.monthsSinceLastMaintenance)
        ageFactor == calculateAgeFactor(input.ageInDays, input.expectedLifespan)
        monthlyDegradation ==
            (((((((baseMonthlyRate * trafficAmp) \div Scale) * environmentalMult) \div Scale)
                 * maintenanceFactor) \div Scale) * ageFactor) \div Scale
    IN  [monthlyDegradation |-> monthlyDegradation,
         newCondition |-> Max(0, input.currentCondition - monthlyDegradation)]

\* a failure probability whose top band (condition >= 80) gives 0.1 instead of 0.001
calculateFailureProbabilityTopBand(conditionScore, degradationRate, monthsSinceLastMaintenance) ==
    LET base == IF conditionScore >= 80 * Scale THEN 1000
                ELSE IF conditionScore >= 60 * Scale
                     THEN 100 + ((80 * Scale - conditionScore) * 2) \div 1000
                ELSE IF conditionScore >= 40 * Scale
                     THEN 500 + ((60 * Scale - conditionScore) * 5) \div 1000
                ELSE IF conditionScore >= 20 * Scale
                     THEN 1500 + ((40 * Scale - conditionScore) * 15) \div 1000
                ELSE 4500 + ((20 * Scale - conditionScore) * 25) \div 1000
        rated == IF degradationRate > Scale
                 THEN MulDiv(base, Scale + (degradationRate - Scale) \div 2, Scale)
                 ELSE base
        maintained == IF monthsSinceLastMaintenance > 24 THEN (rated * 13) \div 10
                      ELSE rated
    IN  Min(maintained, 9900)

\* conditionScore and degradationRate in units of 1/Scale; result in units of 1/Scale
calculateFailureProbability(conditionScore, degradationRate, monthsSinceLastMaintenance) ==
    LET base == IF conditionScore >= 80 * Scale THEN 10
                ELSE IF conditionScore >= 60 * Scale
                     THEN 100 + ((80 * Scale - conditionScore) * 2) \div 1000
                ELSE IF conditionScore >= 40 * Scale
                     THEN 500 + ((60 * Scale - conditionScore) * 5) \div 1000
                ELSE IF conditionScore >= 20 * Scale
                     THEN 1500 + ((40 * Scale - conditionScore) * 15) \div 1000
                ELSE 4500 + ((20 * Scale - conditionScore) * 25) \div 1000
        rated == IF degradationRate > Scale
                 THEN MulDiv(base, Scale + (degradationRate - Scale) \div 2, Scale)
                 ELSE base
        maintained == IF monthsSinceLastMaintenance > 24 THEN (rated * 13) \div 10
                      ELSE IF monthsSinceLastMaintenance > 36 THEN (rated * 16) \div 10
                      ELSE rated
    IN  Min(maintained, 9900)

\* a risk level that needs both inputs to indicate a band
determineRiskLevelBoth(conditionScore, failureProbability) ==
    IF conditionScore < 20 * Scale /\ failureProbability > 4000 THEN "critical"
    ELSE IF conditionScore < 40 * Scale /\ failureProbability > 2000 THEN "high"
    ELSE IF conditionScore < 60 * Scale /\ failureProbability > 1000 THEN "medium"
    ELSE "low"

determineRiskLevel(conditionScore, failureProbability) ==
    IF conditionScore < 20 * Scale \/ failureProbability > 4000 THEN "critical"
    ELSE IF conditionScore < 40 * Scale \/ failureProbability > 2000 THEN "high"
    ELSE IF conditionScore < 60 * Scale \/ failureProbability > 1000 THEN "medium"
    ELSE "low"

\* an optional number: <<>> when absent, <<x>> when supplied
Absent == <<>>
\* p || d
OrDefault(p, d) == IF p = Absent \/ p[1] = 0 THEN d ELSE p[1]

\* Math.floor((now - lastMaintenance) / 30 days), or 24 without a maintenance record
MonthsSinceLastMaintenance(a, now) ==
    IF a.lastMaintenance = Absent THEN 24 ELSE (now - a.lastMaintenance[1]) \div 30

ScenarioMultiplier(config) ==
    CASE config.scenarioType = "optimistic" -> 8000
      [] config.scenarioType = "pessimistic" -> 13000
      [] config.scenarioType = "custom" -> OrDefault(config.environmentalSeverity, Scale)
      [] OTHER -> Scale

MaintenanceCost(a, currentCondition) ==
    IF currentCondition < 40 * Scale THEN a.replacementCost * 30
    ELSE IF currentCondition < 60 * Scale THEN a.replacementCost * 10
    ELSE IF currentCondition < 80 * Scale THEN a.replacementCost * 2
    ELSE 0

\* the for loop of runSimulation from `month` on
RECURSIVE SimulationLoop(_, _, _, _, _, _, _)
SimulationLoop(a, config, now, month, currentCondition, cumulativeDegradation, results) ==
    IF month > config.yearsToSimulate * 12 THEN results
    ELSE
    LET monthsSince == MonthsSinceLastMaintenance(a, now) + month
        degradationInput ==
            [material |-> a.material,
             ageInDays |-> (now - a.installationDate) + (month * 36525) \div 1200,
             expectedLifespan |-> a.expectedLifespan,
             trafficLoad |-> a.trafficLoad * OrDefault(config.trafficMultiplier, Scale),
             humidityIndex |-> a.humidityIndex,
             salinityIndex |-> a.salinityIndex,
             temperatureIndex |-> a.temperatureIndex,
             maintenanceFreq |-> a.maintenanceFreq,
             monthsSinceLastMaintenance |-> monthsSince,
             currentCondition |-> currentCondition]
        degradation == calculateMonthlyDegradation(degradationInput)
        monthlyDegr == (degradation.monthlyDegradation * ScenarioMultiplier(config)) \div Scale
        newCondition == Max(0, currentCondition - monthlyDegr)
        newCumulative == cumulativeDegradation + monthlyDegr
        failureProb == calculateFailureProbability(newCondition, monthlyDegr * 12, monthsSince)
        riskLevel == determineRiskLevel(newCondition, failureProb)
        entry == [month |-> month,
                  year |-> (month + 11) \div 12,
                  conditionScore |-> RoundDiv(newCondition, 100),
                  degradationScore |-> RoundDiv(newCumulative, 100),
                  failureProbability |-> RoundDiv(failureProb, 10),
                  riskLevel |-> riskLevel,
                  maintenanceCost |-> MaintenanceCost(a, newCondition)]
    IN  IF newCondition <= 0
        THEN Append(results, entry)
        ELSE SimulationLoop(a, config, now, month + 1, newCondition, newCumulative,
                            Append(results, entry))

\* runSimulation after the asset has been found; `now` is new Date()
runSimulation(a, config, now) ==
    SimulationLoop(a, config, now, 1, a.currentCondition, a.degradationScore, <<>>)

-----------------------------------------------------------------------------
(* The engine as a state machine: the asset row, the clock, two invocations *)

MaxSimYears == 1
MaxTicks == 1
TickDays == 400

Assets ==
    [material : {"concrete", "granite"},
     installationDate : {-3650},
     lastMaintenance : {Absent, <<-400>>},
     expectedLifespan : {20},
     trafficLoad : {30, 100},
     humidityIndex : {50},
     salinityIndex : {50},
     temperatureIndex : {50},
     maintenanceFreq : {0, 12},
     currentCondition : {0, Scale \div 2, 60 * Scale, 100 * Scale},
     degradationScore : {0},
     replacementCost : {1000}]

CustomParams ==
    { [scenarioType |-> "standard", trafficMultiplier |-> Absent, environmentalSeverity |-> Absent],
      [scenarioType |-> "optimistic", trafficMultiplier |-> Absent, environmentalSeverity |-> Absent],
      [scenarioType |-> "pessimistic", trafficMultiplier |-> Absent, environmentalSeverity |-> Absent],
      [scenarioType |-> "custom", trafficMultiplier |-> <<2 * Scale>>, environmentalSeverity |-> Absent],
      [scenarioType |-> "custom", trafficMultiplier |-> Absent, environmentalSeverity |-> <<15000>>],
      [scenarioType |-> "custom", trafficMultiplier |-> Absent, environmentalSeverity |-> <<-Scale>>] }

Configs ==
    { [yearsToSimulate |-> y, scenarioType |-> c.scenarioType,
       trafficMultiplier |-> c.trafficMultiplier,
       environmentalSeverity |-> c.environmentalSeverity]
      : y \in 1..MaxSimYears, c \in CustomParams }

InitEngine ==
    /\ InitService
    /\ clock = 0
    /\ asset \in Assets
    /\ inv = [i \in InvIds |-> IdleInvocation]
    /\ call = NoCall
    /\ InitApi

\* time passes
Tick ==
    /\ clock < MaxTicks * TickDays
    /\ clock' = clock + TickDays
    /\ UNCHANGED <<asset, inv, call>>
    /\ UNCHANGED serviceVars
    /\ UNCHANGED apiVars

\* runSimulation(config) up to `await db.asset.findUnique(...)`
RunSimulationCall(i, config) ==
    /\ inv[i].pc = "idle"
    /\ inv' = [inv EXCEPT ![i] = [pc |-> "awaiting", config |-> config, results |-> <<>>]]
    /\ UNCHANGED <<clock, asset, call>>
    /\ UNCHANGED serviceVars
    /\ UNCHANGED apiVars

\* the rest of runSimulation: the row arrives, `now` is read, the loop runs
RunSimulationResume(i) ==
    /\ inv[i].pc = "awaiting"
    /\ inv' = [inv EXCEPT ![i].pc = "returned",
                          ![i].results = runSimulation(asset, inv[i].config, clock)]
    /\ UNCHANGED <<clock, asset, call>>
    /\ UNCHANGED serviceVars
    /\ UNCHANGED apiVars

NextEngine ==
    \/ Tick
    \/ \E i \in InvIds, config \in Configs : RunSimulationCall(i, config)
    \/ \E i \in InvIds : RunSimulationResume(i)

SpecEngine == InitEngine /\ [][NextEngine]_vars

-----------------------------------------------------------------------------
(* Properties of the engine *)

Returned(i) == inv[i].pc = "returned"

\* C8: a run over Y years returns at most 12 Y entries; fewer than 12 Y only
\* when the last entry has conditionScore 0; and no entry follows an entry
\* whose conditionScore is 0.
StopsAtFirstZero ==
    \A i \in InvIds :
        Returned(i) =>
            LET r == inv[i].results
                total == inv[i].config.yearsToSimulate * 12
            IN  /\ Len(r) <= total
                /\ Len(r) < total => r[Len(r)].conditionScore = 0
                /\ \A k \in 1..(Len(r) - 1) : r[k].conditionScore # 0

\* C9: with an initial condition in [0, 100], every conditionScore of a run is
\* in [0, 100] (given here in hundredths).
ConditionInRange ==
    \A i \in InvIds :
        Returned(i) =>
            \A k \in 1..Len(inv[i].results) :
                inv[i].results[k].conditionScore \in 0..(100 * 100)

\* C10: two invocations with the same asset row and the same config return the
\* same sequence of month results, whenever each of them is made.
Deterministic ==
    \A i, j \in InvIds :
        (Returned(i) /\ Returned(j) /\ inv[i].config = inv[j].config) =>
            inv[i].results = inv[j].results

-----------------------------------------------------------------------------
(* The pure functions called directly, on a grid of arguments *)

\* condition scores around every band boundary, in units of 1/Scale
ConditionScores ==
    {0, 10 * Scale, 20 * Scale - 1, 20 * Scale, 30 * Scale, 40 * Scale - 1, 40 * Scale,
     50 * Scale, 60 * Scale - 1, 60 * Scale, 70 * Scale, 80 * Scale - 1, 80 * Scale,
     100 * Scale}
\* annual degradation rates, in units of 1/Scale
DegradationRates == {0, Scale, 2 * Scale, 6 * Scale}
MonthsSince == {0, 24, 25, 36, 37, 60}
\* failure probabilities around every threshold, in units of 1/Scale
Probabilities == {0, 10, 1000, 1001, 2000, 2001, 4000, 4001, 9900}

InitPure ==
    /\ InitService
    /\ clock = 0
    /\ asset = <<>>
    /\ inv = [i \in InvIds |-> IdleInvocation]
    /\ call = NoCall
    /\ InitApi

CallFailureProbability(c, r, m) ==
    /\ call' = [NoCall EXCEPT !.fn = "calculateFailureProbability",
                              !.conditionScore = c, !.degradationRate = r,
                              !.monthsSinceLastMaintenance = m,
                              !.out = calculateFailureProbability(c, r, m)]
    /\ UNCHANGED <<clock, asset, inv>>
    /\ UNCHANGED serviceVars
    /\ UNCHANGED apiVars

CallRiskLevel(c, p) ==
    /\ call' = [NoCall EXCEPT !.fn = "determineRiskLevel",
                              !.conditionScore = c, !.failureProbability = p,
                              !.level = determineRiskLevel(c, p)]
    /\ UNCHANGED <<clock, asset, inv>>
    /\ UNCHANGED serviceVars
    /\ UNCHANGED apiVars

\* positive maintenance intervals and months since the last maintenance, the
\* months on both sides of one and of two intervals
MaintenanceFreqs == {6, 12}
OverdueMonths == {0, 3, 6, 7, 12, 13, 24, 25, 60}

CallMaintenanceFactor(f, m) ==
    /\ call' = [NoCall EXCEPT !.fn = "calculateMaintenanceFactor",
                              !.maintenanceFreq = f,
                              !.monthsSinceLastMaintenance = m,
                              !.out = calculateMaintenanceFactor(f, m)]
    /\ UNCHANGED <<clock, asset, inv>>
    /\ UNCHANGED serviceVars
    /\ UNCHANGED apiVars

NextPure ==
    \/ \E c \in ConditionScores, r \in DegradationRates, m \in MonthsSince :
          CallFailureProbability(c, r, m)
    \/ \E c \in ConditionScores, p \in Probabilities : CallRiskLevel(c, p)
    \/ \E f \in MaintenanceFreqs, m \in OverdueMonths : CallMaintenanceFactor(f, m)

SpecPure == InitPure /\ [][NextPure]_vars

CalledFailureProbability == call.fn = "calculateFailureProbability"
CalledRiskLevel == call.fn = "determineRiskLevel"

\* C12: the probability is multiplied by 1.6 when more than 36 months have
\* passed since the last maintenance, by 1.3 when more than 24 and at most 36,
\* and by nothing otherwise (before the cap at 0.99).
HigherThresholdWins ==
    CalledFailureProbability =>
        LET m == call.monthsSinceLastMaintenance
            unadjusted == calculateFailureProbability(call.conditionScore,
                                                      call.degradationRate, 0)
            tenths == IF m > 36 THEN 16 ELSE IF m > 24 THEN 13 ELSE 10
        IN  call.out = Min((unadjusted * tenths) \div 10, 9900)

\* C13: for a fixed degradation rate and months since maintenance, the failure
\* probability does not increase when the condition score increases over
\* 0..100, band boundaries included, and it never exceeds 0.99.
ProbabilityNonIncreasing ==
    CalledFailureProbability =>
        /\ call.out <= 9900
        /\ \A c2 \in ConditionScores :
              c2 >= call.conditionScore =>
                  calculateFailureProbability(c2, call.degradationRate,
                                              call.monthsSinceLastMaintenance) <= call.out

\* the function was called just below the boundary 80, where the next band
\* gives a strictly smaller probability
CalledBelowTopBand ==
    /\ CalledFailureProbability
    /\ call.conditionScore = 80 * Scale - 1
    /\ call.out < 9900
    /\ calculateFailureProbability(80 * Scale, call.degradationRate,
                                   call.monthsSinceLastMaintenance) < call.out

SeverityRank(level) ==
    CASE level = "critical" -> 3
      [] level = "high" -> 2
      [] level = "medium" -> 1
      [] OTHER -> 0
ConditionBand(c) ==
    IF c < 20 * Scale THEN 3 ELSE IF c < 40 * Scale THEN 2 ELSE IF c < 60 * Scale THEN 1 ELSE 0
ProbabilityBand(p) ==
    IF p > 4000 THEN 3 ELSE IF p > 2000 THEN 2 ELSE IF p > 1000 THEN 1 ELSE 0

\* C14: the risk level is the more severe of the band of the condition
\* (below 20, 40, 60) and the band of the probability (above 0.4, 0.2, 0.1),
\* and for a fixed probability it never gets more severe as the condition
\* score increases.
MoreSevereBandWins ==
    CalledRiskLevel =>
        /\ call.level \in {"critical", "high", "medium", "low"}
        /\ SeverityRank(call.level) =
              Max(ConditionBand(call.conditionScore), ProbabilityBand(call.failureProbability))
        /\ \A c2 \in ConditionScores :
              c2 >= call.conditionScore =>
                  SeverityRank(determineRiskLevel(c2, call.failureProbability))
                      <= SeverityRank(call.level)

\* the probability alone made a sound asset critical
ProbabilityAloneCritical ==
    /\ CalledRiskLevel
    /\ call.conditionScore = 100 * Scale
    /\ call.failureProbability = 4001
    /\ call.level = "critical"

CalledMaintenanceFactor == call.fn = "calculateMaintenanceFactor"

\* C30: for a fixed positive maintenance interval the maintenance factor does
\* not decrease when the months since the last maintenance increase.
MaintenanceFactorMonotone ==
    CalledMaintenanceFactor =>
        \A m2 \in OverdueMonths :
            m2 >= call.monthsSinceLastMaintenance =>
                calculateMaintenanceFactor(call.maintenanceFreq, m2) >= call.out

\* the asset snapshot has a negative traffic load or environmental index, a
\* non-positive expected lifespan or a non-positive maintenance interval
InvalidSnapshot(a) ==
    \/ a.trafficLoad < 0
    \/ a.humidityIndex < 0 \/ a.salinityIndex < 0 \/ a.temperatureIndex < 0
    \/ a.expectedLifespan <= 0
    \/ a.maintenanceFreq <= 0

\* C11: an invocation on an invalid asset snapshot never returns normally and
\* produces no month result.
RejectsInvalidSnapshot ==
    \A i \in InvIds :
        InvalidSnapshot(asset) => (~Returned(i) /\ inv[i].results = <<>>)

-----------------------------------------------------------------------------
(* The summaries of a run: failure window and cost impact *)

MaxSummaryYears == 2

\* null
NoWindow == <<>>

\* simulationResults.filter(predicate) for the two predicates on a month result
CriticalPoints(simulationResults) ==
    SelectSeq(simulationResults, LAMBDA r : r.riskLevel = "critical")
FirstYear(simulationResults) ==
    SelectSeq(simulationResults, LAMBDA r : r.month <= 12)

\* a window that starts at the first month of the results
calculateFailureWindowFirstMonth(simulationResults, now) ==
    LET criticalPoints == CriticalPoints(simulationResults)
    IN  IF Len(criticalPoints) = 0 THEN NoWindow
        ELSE LET lastResult == simulationResults[Len(simulationResults)]
             IN  <<[start |-> now + simulationResults[1].month * 30,
                    end |-> now + lastResult.month * 30]>>

\* `now` is new Date(), in days; a window is <<[start, end]>>, null is <<>>
calculateFailureWindow(simulationResults, now) ==
    LET criticalPoints == CriticalPoints(simulationResults)
    IN  IF Len(criticalPoints) = 0 THEN NoWindow
        ELSE LET firstCritical == criticalPoints[1]
                 lastResult == simulationResults[Len(simulationResults)]
             IN  <<[start |-> now + firstCritical.month * 30,
                    end |-> now + lastResult.month * 30]>>

\* .reduce((sum, r) => sum + r.maintenanceCost, 0)
RECURSIVE SumMaintenanceCost(_)
SumMaintenanceCost(rs) ==
    IF rs = <<>> THEN 0 ELSE Head(rs).maintenanceCost + SumMaintenanceCost(Tail(rs))

\* a cost impact whose maintenance figure adds up every month of the run
calculateCostImpactAllMonths(a, simulationResults) ==
    LET estimatedRepairCost ==
            IF \E k \in 1..Len(simulationResults) : simulationResults[k].conditionScore < 40 * 100
            THEN a.replacementCost * 30 ELSE 0
        estimatedReplacementCost ==
            IF \E k \in 1..Len(simulationResults) : simulationResults[k].conditionScore <= 0
            THEN a.replacementCost * 100 ELSE 0
        projectedAnnualMaintenance == SumMaintenanceCost(simulationResults)
    IN  [estimatedRepairCost |-> estimatedRepairCost,
         estimatedReplacementCost |-> estimatedReplacementCost,
         projectedAnnualMaintenance |-> projectedAnnualMaintenance,
         totalProjectedCost |-> estimatedRepairCost + estimatedReplacementCost
                                    + projectedAnnualMaintenance]

\* money in hundredths; conditionScore of a month result in hundredths of a point
calculateCostImpact(a, simulationResults) ==
    LET estimatedRepairCost ==
            IF \E k \in 1..Len(simulationResults) : simulationResults[k].conditionScore < 40 * 100
            THEN a.replacementCost * 30 ELSE 0
        estimatedReplacementCost ==
            IF \E k \in 1..Len(simulationResults) : simulationResults[k].conditionScore <= 0
            THEN a.replacementCost * 100 ELSE 0
        projectedAnnualMaintenance == SumMaintenanceCost(FirstYear(simulationResults))
    IN  [estimatedRepairCost |-> estimatedRepairCost,
         estimatedReplacementCost |-> estimatedReplacementCost,
         projectedAnnualMaintenance |-> projectedAnnualMaintenance,
         totalProjectedCost |-> estimatedRepairCost + estimatedReplacementCost
                                    + projectedAnnualMaintenance]

SummaryAssets ==
    { a \in Assets : a.material = "concrete" /\ a.maintenanceFreq = 12 }

\* the scenarios of a request, an environmentalSeverity of 0 among them
ScenarioParams ==
    CustomParams \cup
    { [scenarioType |-> "custom", trafficMultiplier |-> Absent, environmentalSeverity |-> <<0>>] }

SummaryConfigs ==
    { [yearsToSimulate |-> y, scenarioType |-> c.scenarioType,
       trafficMultiplier |-> c.trafficMultiplier,
       environmentalSeverity |-> c.environmentalSeverity]
      : y \in 1..MaxSummaryYears, c \in ScenarioParams }

\* the invocation made by the run route
SummaryInvs == {"i1"}

InitSummary ==
    /\ InitService
    /\ clock = 0
    /\ asset \in SummaryAssets
    /\ inv = [i \in InvIds |-> IdleInvocation]
    /\ call = NoCall
    /\ InitApi

\* calculateFailureWindow(results) on the results of a returned invocation
CallFailureWindow(i) ==
    /\ inv[i].pc = "returned"
    /\ call' = [NoCall EXCEPT !.fn = "calculateFailureWindow",
                              !.results = inv[i].results, !.now = clock,
                              !.window = calculateFailureWindow(inv[i].results, clock)]
    /\ UNCHANGED <<clock, asset, inv>>
    /\ UNCHANGED serviceVars
    /\ UNCHANGED apiVars

\* calculateCostImpact(asset, results) on the results of a returned invocation
CallCostImpact(i) ==
    /\ inv[i].pc = "returned"
    /\ call' = [NoCall EXCEPT !.fn = "calculateCostImpact",
                              !.results = inv[i].results,
                              !.cost = <<calculateCostImpact(asset, inv[i].results)>>]
    /\ UNCHANGED <<clock, asset, inv>>
    /\ UNCHANGED serviceVars
    /\ UNCHANGED apiVars

NextSummary ==
    \/ Tick
    \/ \E i \in SummaryInvs, config \in SummaryConfigs : RunSimulationCall(i, config)
    \/ \E i \in SummaryInvs : RunSimulationResume(i)
    \/ \E i \in SummaryInvs : CallFailureWindow(i)
    \/ \E i \in SummaryInvs : CallCostImpact(i)

SpecSummary == InitSummary /\ [][NextSummary]_vars

\* the multiplier that the scenario of a request stands for
StatedMultiplier(config) ==
    CASE config.scenarioType = "standard" -> Scale
      [] config.scenarioType = "optimistic" -> 8000
      [] config.scenarioType = "pessimistic" -> 13000
      [] config.scenarioType = "custom" ->
            IF config.environmentalSeverity = Absent THEN Scale
            ELSE config.environmentalSeverity[1]

\* C24: the multiplier applied to the monthly deltas of a run is 1.0 for
\* standard, 0.8 for optimistic, 1.3 for pessimistic and, for custom, the
\* environmentalSeverity of the request whenever one is supplied (1.0 only
\* when it is absent); with a multiplier of 0 no month adds any degradation.
ScenarioAsStated ==
    \A i \in SummaryInvs :
        Returned(i) =>
            /\ ScenarioMultiplier(inv[i].config) = StatedMultiplier(inv[i].config)
            /\ StatedMultiplier(inv[i].config) = 0 =>
                  \A k \in 1..Len(inv[i].results) :
                      inv[i].results[k].degradationScore = RoundDiv(asset.degradationScore, 100)

CalledFailureWindow == call.fn = "calculateFailureWindow"
CalledCostImpact == call.fn = "calculateCostImpact"

\* the months of the results that are critical
CriticalMonths(results) ==
    { results[k].month : k \in { j \in 1..Len(results) : results[j].riskLevel = "critical" } }

\* C25: the failure window is null exactly when no month result is critical;
\* otherwise its start is 30 days times the first critical month after now,
\* its end 30 days times the last produced month after now, and the start is
\* not later than the end.
WindowFromFirstCritical ==
    CalledFailureWindow =>
        LET rs == call.results
            months == CriticalMonths(rs)
        IN  /\ call.window = NoWindow <=> months = {}
            /\ months # {} =>
                  LET w == call.window[1]
                      first == CHOOSE m \in months : \A n \in months : m <= n
                  IN  /\ w.start = call.now + 30 * first
                      /\ w.end = call.now + 30 * Len(rs)
                      /\ rs[Len(rs)].month = Len(rs)
                      /\ w.start <= w.end

\* a run turned critical after its first month and went on after that
WindowStartsMidRun ==
    /\ CalledFailureWindow
    /\ call.window # NoWindow
    /\ call.window[1].start > call.now + 30
    /\ call.window[1].start < call.window[1].end

\* sum of the maintenance costs of the first n month results
RECURSIVE MaintenanceUpTo(_, _)
MaintenanceUpTo(results, n) ==
    IF n = 0 THEN 0 ELSE results[n].maintenanceCost + MaintenanceUpTo(results, n - 1)

\* C26: the repair estimate is 30% of the replacement cost iff the condition
\* score of some month is below 40 (else 0), the replacement estimate is the
\* replacement cost iff the condition score of some month is 0 (else 0), the
\* first-year maintenance is the sum of the maintenance costs of months 1 to
\* 12 only, and the total is the sum of the three.
CostImpactAsStated ==
    CalledCostImpact =>
        LET rs == call.results
            c == call.cost[1]
            below40 == \E k \in 1..Len(rs) : rs[k].conditionScore < 4000
            reached0 == \E k \in 1..Len(rs) : rs[k].conditionScore = 0
        IN  /\ c.estimatedRepairCost = IF below40 THEN (asset.replacementCost * 100 * 3) \div 10 ELSE 0
            /\ c.estimatedReplacementCost = IF reached0 THEN asset.replacementCost * 100 ELSE 0
            /\ c.projectedAnnualMaintenance = MaintenanceUpTo(rs, Min(12, Len(rs)))
            /\ c.totalProjectedCost = c.estimatedRepairCost + c.estimatedReplacementCost
                                          + c.projectedAnnualMaintenance

\* a run of more than a year whose months after the first year cost something
CostAfterFirstYear ==
    /\ CalledCostImpact
    /\ Len(call.results) > 12
    /\ call.results[13].maintenanceCost > 0
    /\ call.cost[1].estimatedRepairCost > 0
    /\ call.cost[1].estimatedReplacementCost = 0

-----------------------------------------------------------------------------
(* Part III : the routes.  A handler is cut at its awaits on the database;  *)
(* an action is the code between two of them.                               *)

ForeignKeyError == "Foreign key constraint failed"
NotFoundError == "Record to update not found"
AssetNotFound == "Asset not found"
\* any other rejection of a database call (connection lost, constraint, timeout)
DatabaseError == "Database error"

RouteAssets ==
    { a \in Assets : /\ a.material = "concrete" /\ a.trafficLoad = 30
                     /\ a.lastMaintenance = Absent /\ a.maintenanceFreq = 12
                     /\ a.currentCondition \in {Scale \div 2, 100 * Scale} }
RouteConfigs == { c \in Configs : c.scenarioType = "standard" }

RunExists(q) == db.simulationRun[q].status # "absent"

\* results.filter((r) => r.riskLevel === 'critical').length > 0
HasCritical(results) == \E k \in 1..Len(results) : results[k].riskLevel = "critical"

\* cache.delete(key)
CacheDelete(c, key) == { e \in c : e.key # key }

\* POST: the request arrives and `db.asset.findFirst` answers
PostFindFirst(q, config) ==
    /\ post[q].pc = "idle"
    /\ post' = [post EXCEPT ![q] =
                  IF asset = NoAsset
                  THEN [IdlePost EXCEPT !.pc = "done", !.config = config,
                                        !.error = AssetNotFound, !.response = 404]
                  ELSE [IdlePost EXCEPT !.pc = "create", !.config = config, !.asset = asset]]
    /\ UNCHANGED <<db, cache, del, put, get>>
    /\ UNCHANGED <<clock, asset, inv, call>>
    /\ UNCHANGED serviceVars

\* POST: `db.simulationRun.create` with status 'running'
PostCreateRun(q) ==
    /\ post[q].pc = "create"
    /\ IF asset = NoAsset
       THEN \* the record refers to a row that is gone: the outer catch answers 500
            /\ post' = [post EXCEPT ![q].pc = "done", ![q].error = ForeignKeyError,
                                    ![q].response = 500]
            /\ db' = db
       ELSE /\ post' = [post EXCEPT ![q].pc = "lookup", ![q].created = TRUE]
            /\ db' = [db EXCEPT !.simulationRun[q] = [status |-> "running",
                                                      errorMessage |-> NoError]]
    /\ UNCHANGED <<cache, del, put, get>>
    /\ UNCHANGED <<clock, asset, inv, call>>
    /\ UNCHANGED serviceVars

\* POST: runSimulation(config): its findUnique answers, then the whole loop runs
PostRunSimulation(q) ==
    /\ post[q].pc = "lookup"
    /\ post' = [post EXCEPT ![q] =
                  IF asset = NoAsset
                  THEN [@ EXCEPT !.pc = "catch", !.error = AssetNotFound]
                  ELSE [@ EXCEPT !.pc = "store",
                                 !.results = runSimulation(asset, post[q].config, clock)]]
    /\ UNCHANGED <<db, cache, del, put, get>>
    /\ UNCHANGED <<clock, asset, inv, call>>
    /\ UNCHANGED serviceVars

\* POST: `db.simulationResult.createMany`; `ok` is whether the database accepts it
PostStoreResults(q, ok) ==
    /\ post[q].pc = "store"
    /\ IF ~ok
       THEN /\ db' = db
            /\ post' = [post EXCEPT ![q].pc = "catch", ![q].error = DatabaseError]
       ELSE IF RunExists(q)
       THEN /\ db' = [db EXCEPT !.simulationResult[q] = post[q].results]
            /\ post' = [post EXCEPT ![q].pc = "complete"]
       ELSE /\ db' = db
            /\ post' = [post EXCEPT ![q].pc = "catch", ![q].error = ForeignKeyError]
    /\ UNCHANGED <<cache, del, put, get>>
    /\ UNCHANGED <<clock, asset, inv, call>>
    /\ UNCHANGED serviceVars

\* POST: `db.simulationRun.update` to 'completed', then the critical filter
PostComplete(q, ok) ==
    /\ post[q].pc = "complete"
    /\ IF ~ok
       THEN /\ db' = db
            /\ post' = [post EXCEPT ![q].pc = "catch", ![q].error = DatabaseError]
       ELSE IF RunExists(q)
       THEN /\ db' = [db EXCEPT !.simulationRun[q].status = "completed"]
            /\ post' = [post EXCEPT ![q].pc =
                          IF HasCritical(post[q].results) THEN "risk" ELSE "finish"]
       ELSE /\ db' = db
            /\ post' = [post EXCEPT ![q].pc = "catch", ![q].error = NotFoundError]
    /\ UNCHANGED <<cache, del, put, get>>
    /\ UNCHANGED <<clock, asset, inv, call>>
    /\ UNCHANGED serviceVars

\* POST: `db.riskAssessment.create`
PostRiskAssessment(q, ok) ==
    /\ post[q].pc = "risk"
    /\ IF ~ok
       THEN /\ db' = db
            /\ post' = [post EXCEPT ![q].pc = "catch", ![q].error = DatabaseError]
       ELSE IF asset # NoAsset
       THEN /\ db' = [db EXCEPT !.riskAssessment = @ \cup {q}]
            /\ post' = [post EXCEPT ![q].pc = "finish"]
       ELSE /\ db' = db
            /\ post' = [post EXCEPT ![q].pc = "catch", ![q].error = ForeignKeyError]
    /\ UNCHANGED <<cache, del, put, get>>
    /\ UNCHANGED <<clock, asset, inv, call>>
    /\ UNCHANGED serviceVars

\* ids as they are spliced into cache keys, character by character
AssetId == <<"a", "1">>
TenantId == <<"t", "1">>
RequestIdOf(q) == <<"q", "1">>

\* CacheKeys.asset(assetId) = `asset:${assetId}`
CacheKeyAsset(assetId) == <<"a", "s", "s", "e", "t", ":">> \o assetId
\* CacheKeys.simulation(simulationId) = `simulation:${simulationId}`
CacheKeySimulation(simulationId) == <<"s", "i", "m", "u", "l", "a", "t", "i", "o", "n", ":">> \o simulationId

\* POST: the audit log, the two cache deletions and the answer
PostFinish(q) ==
    /\ post[q].pc = "finish"
    /\ cache' = CacheDelete(CacheDelete(cache, CacheKeySimulation(RequestIdOf(q))),
                            CacheKeyAsset(AssetId))
    /\ post' = [post EXCEPT ![q].pc = "done", ![q].response = 200]
    /\ UNCHANGED <<db, del, put, get>>
    /\ UNCHANGED <<clock, asset, inv, call>>
    /\ UNCHANGED serviceVars

\* POST: catch (simError): `db.simulationRun.update` to 'failed', rethrow, answer 500
PostCatch(q) ==
    /\ post[q].pc = "catch"
    /\ IF RunExists(q)
       THEN /\ db' = [db EXCEPT !.simulationRun[q] = [status |-> "failed",
                                                      errorMessage |-> post[q].error]]
            /\ post' = [post EXCEPT ![q].pc = "done", ![q].response = 500]
       ELSE \* the update itself throws; the outer catch answers with that error
            /\ db' = db
            /\ post' = [post EXCEPT ![q].pc = "done", ![q].error = NotFoundError,
                                    ![q].response = 500]
    /\ UNCHANGED <<cache, del, put, get>>
    /\ UNCHANGED <<clock, asset, inv, call>>
    /\ UNCHANGED serviceVars

\* DELETE: the request arrives and `db.asset.findFirst` answers
DeleteFindFirst ==
    /\ del.pc = "idle"
    /\ del' = IF asset = NoAsset THEN [pc |-> "done", response |-> 404]
              ELSE [pc |-> "results", response |-> 0]
    /\ UNCHANGED <<db, cache, post, put, get>>
    /\ UNCHANGED <<clock, asset, inv, call>>
    /\ UNCHANGED serviceVars

\* DELETE: `db.simulationResult.deleteMany` (results of the runs of the asset)
DeleteResults ==
    /\ del.pc = "results"
    /\ db' = [db EXCEPT !.simulationResult =
                 [q \in Reqs |-> IF RunExists(q) THEN <<>> ELSE db.simulationResult[q]]]
    /\ del' = [del EXCEPT !.pc = "runs"]
    /\ UNCHANGED <<cache, post, put, get>>
    /\ UNCHANGED <<clock, asset, inv, call>>
    /\ UNCHANGED serviceVars

\* DELETE: `db.simulationRun.deleteMany` (then maintenanceRecord.deleteMany is issued)
DeleteRuns ==
    /\ del.pc = "runs"
    /\ db' = [db EXCEPT !.simulationRun = [q \in Reqs |-> NoRun]]
    /\ del' = [del EXCEPT !.pc = "risk"]
    /\ UNCHANGED <<cache, post, put, get>>
    /\ UNCHANGED <<clock, asset, inv, call>>
    /\ UNCHANGED serviceVars

\* DELETE: `db.riskAssessment.deleteMany`
DeleteRiskAssessments ==
    /\ del.pc = "risk"
    /\ db' = [db EXCEPT !.riskAssessment = {}]
    /\ del' = [del EXCEPT !.pc = "asset"]
    /\ UNCHANGED <<cache, post, put, get>>
    /\ UNCHANGED <<clock, asset, inv, call>>
    /\ UNCHANGED serviceVars

\* rows that still refer to the asset
Referenced ==
    \/ \E q \in Reqs : RunExists(q)
    \/ db.riskAssessment # {}

\* DELETE: `db.asset.delete`.  With rows still referring to the asset the
\* outcome depends on the relation's delete rule: the delete is refused
\* (the catch answers 500) or it cascades to those rows.
DeleteAsset ==
    /\ del.pc = "asset"
    /\ \/ /\ asset' = NoAsset
          /\ db' = [simulationRun |-> [q \in Reqs |-> NoRun],
                    simulationResult |->
                        [q \in Reqs |-> IF RunExists(q) THEN <<>> ELSE db.simulationResult[q]],
                    riskAssessment |-> {}]
          /\ del' = [del EXCEPT !.pc = "invalidate"]
       \/ /\ Referenced
          /\ asset' = asset
          /\ db' = db
          /\ del' = [pc |-> "done", response |-> 500]
    /\ UNCHANGED <<cache, post, put, get>>
    /\ UNCHANGED <<clock, inv, call>>
    /\ UNCHANGED serviceVars

\* the regular expression built by pattern.replace(/\*/g, '.*') matches a prefix of s
RECURSIVE MatchHere(_, _)
MatchHere(pattern, s) ==
    IF pattern = <<>> THEN TRUE
    ELSE IF Head(pattern) = "*"
         THEN \E k \in 1..(Len(s) + 1) : MatchHere(Tail(pattern), SubSeq(s, k, Len(s)))
         ELSE s # <<>> /\ Head(s) = Head(pattern) /\ MatchHere(Tail(pattern), Tail(s))

\* regex.test(key): the expression is not anchored, it may match anywhere in the key
RegexTest(pattern, key) ==
    \E k \in 1..(Len(key) + 1) : MatchHere(pattern, SubSeq(key, k, Len(key)))

\* cache.deletePattern(pattern)
CacheDeletePattern(c, pattern) == { e \in c : ~RegexTest(pattern, e.key) }

\* cache.set(key, value)
CacheSet(c, key, value) == CacheDelete(c, key) \cup {[key |-> key, value |-> value]}

\* JSON.stringify(where) + `-${page}-${limit}` of a list request without filters
Filters == <<"{", "\"", "t", "e", "n", "a", "n", "t", "I", "d", "\"", ":", "\"", "t", "1", "\"", "}", "-", "1", "-", "2", "0">>
\* CacheKeys.assetList(tenantId, filters) = `assets:${tenantId}:${filters}`
CacheKeyAssetList(tenantId, filters) ==
    <<"a", "s", "s", "e", "t", "s", ":">> \o tenantId \o <<":">> \o filters
\* the dashboard route's key `kpis:${tenantId}:dashboard`
CacheKeyDashboard(tenantId) ==
    <<"k", "p", "i", "s", ":">> \o tenantId \o <<":", "d", "a", "s", "h", "b", "o", "a", "r", "d">>
\* the patterns `assets:${tenantId}:*` and `kpi:${tenantId}:*` of the invalidation
PatternAssets(tenantId) == <<"a", "s", "s", "e", "t", "s", ":">> \o tenantId \o <<":", "*">>
PatternKpi(tenantId) == <<"k", "p", "i", ":">> \o tenantId \o <<":", "*">>

\* "Invalidate caches" of PUT and DELETE
InvalidateCaches(c) ==
    CacheDeletePattern(
        CacheDeletePattern(CacheDelete(c, CacheKeyAsset(AssetId)), PatternAssets(TenantId)),
        PatternKpi(TenantId))

\* DELETE: the audit log, the cache invalidation and the answer
DeleteInvalidate ==
    /\ del.pc = "invalidate"
    /\ cache' = InvalidateCaches(cache)
    /\ del' = [pc |-> "done", response |-> 200]
    /\ UNCHANGED <<db, post, put, get>>
    /\ UNCHANGED <<clock, asset, inv, call>>
    /\ UNCHANGED serviceVars

\* one asset row, one POST request and one DELETE request
InitRoute ==
    /\ InitService
    /\ clock = 0
    /\ asset \in RouteAssets
    /\ inv = [i \in InvIds |-> IdleInvocation]
    /\ call = NoCall
    /\ InitApi

NextRoute ==
    \/ \E q \in Reqs, config \in RouteConfigs : PostFindFirst(q, config)
    \/ \E q \in Reqs : PostCreateRun(q)
    \/ \E q \in Reqs : PostRunSimulation(q)
    \/ \E q \in Reqs, ok \in BOOLEAN : PostStoreResults(q, ok)
    \/ \E q \in Reqs, ok \in BOOLEAN : PostComplete(q, ok)
    \/ \E q \in Reqs, ok \in BOOLEAN : PostRiskAssessment(q, ok)
    \/ \E q \in Reqs : PostFinish(q)
    \/ \E q \in Reqs : PostCatch(q)
    \/ DeleteFindFirst
    \/ DeleteResults
    \/ DeleteRuns
    \/ DeleteRiskAssessments
    \/ DeleteAsset
    \/ DeleteInvalidate

SpecRoute == InitRoute /\ [][NextRoute]_vars

-----------------------------------------------------------------------------
(* Properties of the run-simulation route *)

\* C15: when a request fails after the engine has produced month results, the
\* run record becomes failed with the captured error message and the month
\* results produced stay attached to the run.
FailureKeepsResults ==
    [][\A q \in Reqs :
          (post[q].pc = "catch" /\ post'[q].pc = "done" /\ post[q].results # <<>>) =>
              /\ db'.simulationRun[q].status = "failed"
              /\ db'.simulationRun[q].errorMessage = post[q].error
              /\ db'.simulationResult[q] = post[q].results]_vars

\* C16: a request that finds the asset unavailable (at the ownership check or
\* at the engine's lookup) answers with the error and never creates a run record.
UnavailableAssetCreatesNoRun ==
    \A q \in Reqs :
        post[q].error = AssetNotFound =>
            /\ ~post[q].created
            /\ post[q].pc = "done" => post[q].response \in {404, 500}

\* C27: a run record that the route has marked completed is never changed to
\* failed afterwards, whatever happens in the later steps of the request.
CompletedStaysCompleted ==
    [][\A q \in Reqs :
          db.simulationRun[q].status = "completed" =>
              db'.simulationRun[q].status # "failed"]_vars

-----------------------------------------------------------------------------
(* The asset routes and the cache *)

\* bodies of PUT requests: a new condition score
PutBodies == { [currentCondition |-> 60 * Scale], [currentCondition |-> 100 * Scale] }
GetKinds == {"asset", "list", "dashboard"}

CacheKeyOf(kind) ==
    CASE kind = "asset" -> CacheKeyAsset(AssetId)
      [] kind = "list" -> CacheKeyAssetList(TenantId, Filters)
      [] OTHER -> CacheKeyDashboard(TenantId)

\* what a route computes from the tenant's assets (here: the one row, or none)
Computed(kind, a) ==
    CASE kind = "asset" -> a
      [] kind = "list" -> [assets |-> IF a = NoAsset THEN <<>> ELSE <<a>>,
                           total |-> IF a = NoAsset THEN 0 ELSE 1]
      [] OTHER -> [totalAssets |-> IF a = NoAsset THEN 0 ELSE 1,
                   avgCondition |-> IF a = NoAsset THEN 0 ELSE a.currentCondition]

\* GET: the request arrives and cache.get(cacheKey) answers
GetLookup(kind) ==
    /\ get.pc = "idle"
    /\ LET hit == { e \in cache : e.key = CacheKeyOf(kind) }
       IN  get' = IF hit # {}
                  THEN [pc |-> "idle", kind |-> kind,
                        value |-> (CHOOSE e \in hit : TRUE).value, response |-> 200]
                  ELSE [pc |-> "query", kind |-> kind, value |-> <<>>, response |-> 0]
    /\ UNCHANGED <<db, cache, post, del, put>>
    /\ UNCHANGED <<clock, asset, inv, call>>
    /\ UNCHANGED serviceVars

\* GET: the database executes the queries
GetQuery ==
    /\ get.pc = "query"
    /\ get' = [get EXCEPT !.pc = "resolved", !.value = Computed(get.kind, asset)]
    /\ UNCHANGED <<db, cache, post, del, put>>
    /\ UNCHANGED <<clock, asset, inv, call>>
    /\ UNCHANGED serviceVars

\* GET: the handler resumes with the rows, caches what it computed and answers
GetResume ==
    /\ get.pc = "resolved"
    /\ IF get.kind = "asset" /\ get.value = NoAsset
       THEN /\ cache' = cache
            /\ get' = [get EXCEPT !.pc = "idle", !.response = 404]
       ELSE /\ cache' = CacheSet(cache, CacheKeyOf(get.kind), get.value)
            /\ get' = [get EXCEPT !.pc = "idle", !.response = 200]
    /\ UNCHANGED <<db, post, del, put>>
    /\ UNCHANGED <<clock, asset, inv, call>>
    /\ UNCHANGED serviceVars

\* an entry's time to live runs out: get() and cleanup() drop it
Expire(key) ==
    /\ \E e \in cache : e.key = key
    /\ cache' = CacheDelete(cache, key)
    /\ UNCHANGED <<db, post, del, put, get>>
    /\ UNCHANGED <<clock, asset, inv, call>>
    /\ UNCHANGED serviceVars

\* PUT: the request arrives and `db.asset.findFirst` answers
PutFindFirst(body) ==
    /\ put.pc = "idle"
    /\ put' = IF asset = NoAsset THEN [pc |-> "idle", body |-> body, response |-> 404]
              ELSE [pc |-> "update", body |-> body, response |-> 0]
    /\ UNCHANGED <<db, cache, post, del, get>>
    /\ UNCHANGED <<clock, asset, inv, call>>
    /\ UNCHANGED serviceVars

\* PUT: `db.asset.update`
PutUpdate ==
    /\ put.pc = "update"
    /\ IF asset = NoAsset
       THEN /\ asset' = asset
            /\ put' = [put EXCEPT !.pc = "idle", !.response = 500]
       ELSE /\ asset' = [asset EXCEPT !.currentCondition = put.body.currentCondition]
            /\ put' = [put EXCEPT !.pc = "invalidate"]
    /\ UNCHANGED <<db, cache, post, del, get>>
    /\ UNCHANGED <<clock, inv, call>>
    /\ UNCHANGED serviceVars

\* PUT: the audit log, the cache invalidation and the answer
PutInvalidate ==
    /\ put.pc = "invalidate"
    /\ cache' = InvalidateCaches(cache)
    /\ put' = [put EXCEPT !.pc = "idle", !.response = 200]
    /\ UNCHANGED <<db, post, del, get>>
    /\ UNCHANGED <<clock, asset, inv, call>>
    /\ UNCHANGED serviceVars

InitCache ==
    /\ InitService
    /\ clock = 0
    /\ asset \in { a \in RouteAssets : a.currentCondition = 100 * Scale }
    /\ inv = [i \in InvIds |-> IdleInvocation]
    /\ call = NoCall
    /\ InitApi

NextCache ==
    \/ \E kind \in GetKinds : GetLookup(kind)
    \/ GetQuery
    \/ GetResume
    \/ \E kind \in GetKinds : Expire(CacheKeyOf(kind))
    \/ \E body \in PutBodies : PutFindFirst(body)
    \/ PutUpdate
    \/ PutInvalidate
    \/ DeleteFindFirst
    \/ DeleteResults
    \/ DeleteRuns
    \/ DeleteRiskAssessments
    \/ DeleteAsset
    \/ DeleteInvalidate

SpecCache == InitCache /\ [][NextCache]_vars

\* the entries derived from the asset: its own entry, the tenant's asset list
\* and the tenant's dashboard KPIs
DerivedKeys ==
    {CacheKeyAsset(AssetId), CacheKeyAssetList(TenantId, Filters), CacheKeyDashboard(TenantId)}

\* C19: when an update or a delete of an asset has done its cache invalidation,
\* no entry derived from the asset is left in the cache: not the asset's entry,
\* nor an asset-list entry, nor the dashboard KPI entry of the tenant.
InvalidationRemovesDerived ==
    [][((put.pc = "invalidate" /\ put'.pc # "invalidate")
          \/ (del.pc = "invalidate" /\ del'.pc # "invalidate"))
       => \A e \in cache' : e.key \notin DerivedKeys]_vars

-----------------------------------------------------------------------------
(* Reads by id from users of several tenants *)

\* the tenant that owns the asset row and whose user made the runs
OwnerTenant == "t1"
\* the tenants of the users that send GET requests
UserTenants == {"t1", "t2"}
ByIdKinds == {"asset", "simulation"}

\* the cache key of a read by id: the id alone
CacheKeyById(kind) ==
    IF kind = "asset" THEN CacheKeyAsset(AssetId) ELSE CacheKeySimulation(RequestIdOf("q1"))

\* findFirst({ where: { id, tenantId } }) and findFirst({ where: { id, user: { tenantId } } })
FindFirstById(kind, tenant) ==
    IF tenant # OwnerTenant THEN <<>>
    ELSE IF kind = "asset" THEN (IF asset = NoAsset THEN <<>> ELSE <<asset>>)
    ELSE IF RunExists("q1")
         THEN <<[simulation |-> db.simulationRun["q1"], results |-> db.simulationResult["q1"]]>>
         ELSE <<>>

\* GET by id: the user is authenticated, cache.get(cacheKey) answers
GetByIdLookup(kind, tenant) ==
    /\ get.pc = "idle"
    /\ LET hit == { e \in cache : e.key = CacheKeyById(kind) }
       IN  get' = IF hit # {}
                  THEN [pc |-> "idle", kind |-> kind, tenant |-> tenant,
                        value |-> <<(CHOOSE e \in hit : TRUE).value>>, response |-> 200]
                  ELSE [pc |-> "query", kind |-> kind, tenant |-> tenant,
                        value |-> <<>>, response |-> 0]
    /\ UNCHANGED <<db, cache, post, del, put>>
    /\ UNCHANGED <<clock, asset, inv, call>>
    /\ UNCHANGED serviceVars

\* GET by id: the database executes findFirst with the tenant of the user
GetByIdQuery ==
    /\ get.pc = "query"
    /\ get' = [get EXCEPT !.pc = "resolved", !.value = FindFirstById(get.kind, get.tenant)]
    /\ UNCHANGED <<db, cache, post, del, put>>
    /\ UNCHANGED <<clock, asset, inv, call>>
    /\ UNCHANGED serviceVars

\* GET by id: 404 without a row; otherwise the record is cached and returned
GetByIdResume ==
    /\ get.pc = "resolved"
    /\ IF get.value = <<>>
       THEN /\ cache' = cache
            /\ get' = [get EXCEPT !.pc = "idle", !.response = 404]
       ELSE /\ cache' = CacheSet(cache, CacheKeyById(get.kind), get.value[1])
            /\ get' = [get EXCEPT !.pc = "idle", !.response = 200]
    /\ UNCHANGED <<db, post, del, put>>
    /\ UNCHANGED <<clock, asset, inv, call>>
    /\ UNCHANGED serviceVars

InitTenant ==
    /\ InitService
    /\ clock = 0
    /\ asset \in { a \in RouteAssets : a.currentCondition = 100 * Scale }
    /\ inv = [i \in InvIds |-> IdleInvocation]
    /\ call = NoCall
    /\ InitApi

\* the run route used by the owner, and reads by id from every tenant
NextTenant ==
    \/ \E q \in Reqs, config \in RouteConfigs : PostFindFirst(q, config)
    \/ \E q \in Reqs : PostCreateRun(q)
    \/ \E q \in Reqs : PostRunSimulation(q)
    \/ \E q \in Reqs, ok \in BOOLEAN : PostStoreResults(q, ok)
    \/ \E q \in Reqs, ok \in BOOLEAN : PostComplete(q, ok)
    \/ \E q \in Reqs : PostFinish(q)
    \/ \E q \in Reqs : PostCatch(q)
    \/ \E kind \in ByIdKinds, tenant \in UserTenants : GetByIdLookup(kind, tenant)
    \/ GetByIdQuery
    \/ GetByIdResume
    \/ \E kind \in ByIdKinds : Expire(CacheKeyById(kind))

SpecTenant == InitTenant /\ [][NextTenant]_vars

\* C28: a GET by id answers with a record only to a user of the tenant that
\* owns the record, in every order of the requests and whether or not the
\* record is in the cache.
TenantIsolation ==
    (get.pc = "idle" /\ get.response = 200) => get.tenant = OwnerTenant

====
